---- MODULE Spec2Model ----
(***************************************************************************)
(* Model of the syllabus-to-calendar backend (backend/app.py and           *)
(* backend/utils/gemini_helper.py): the LRU file cache and the /upload     *)
(* router, the parsing of the AI service's replies, the study-session      *)
(* planner and the time repair of /add-to-calendar.                        *)
(*                                                                         *)
(* One specification per endpoint.  Every specification uses the same     *)
(* variables; those an endpoint does not touch keep their initial value.   *)
(***************************************************************************)
EXTENDS Integers, Sequences, FiniteSets, TLC

VARIABLES
    file_cache,    \* app.py:69  OrderedDict, oldest entry first: Seq of [key, value]
    has_pymupdf,   \* app.py:34-39  HAS_PYMUPDF, fixed when the module is imported
    seen,          \* number of distinct documents uploaded so far (documents 1..seen)
    ai_calls,      \* number of event-extraction calls made to the AI service
    odd_replies,   \* how many of them were answered by something else than a plain event list
    request,       \* the request handled last
    response,      \* what the handler answered, and what it did on the way
    prev           \* the successful /upload before the last one: [hash, hit]

vars == <<file_cache, has_pymupdf, seen, ai_calls, odd_replies, request, response, prev>>

(***************************************************************************)
(* Bounds of the model.                                                    *)
(***************************************************************************)
\* /upload requests that miss the cache (each one calls the AI service).
MaxMisses == 21
\* AI replies, over a run of /upload requests, that are not a plain event list.
MaxOddReplies == 1

\* calls of the extraction functions in a run of the parsing specification
MaxParseCalls == 2

\* offsets in days_before
MaxSessions == 2

\* events in a /add-to-calendar batch
MaxBatch == 2

(***************************************************************************)
(* Program constants.                                                      *)
(***************************************************************************)
MAX_CACHE_ITEMS == 20
\* extracted text must be longer than this for the text path (app.py:382)
MinTextLen == 100
\* events[:25] (app.py:146, 173)
MaxEvents == 25

(***************************************************************************)
(* Small helpers on sequences.                                             *)
(***************************************************************************)
Range(s) == {s[i] : i \in DOMAIN s}

Min(a, b) == IF a <= b THEN a ELSE b

\* s[:n]
Prefix(s, n) == SubSeq(s, 1, Min(n, Len(s)))

RECURSIVE Filter(_, _)
Filter(s, keep) ==
    IF s = <<>> THEN <<>>
    ELSE IF Head(s) \in keep THEN <<Head(s)>> \o Filter(Tail(s), keep)
    ELSE Filter(Tail(s), keep)

(***************************************************************************)
(* Events.  A date is <<year, month, day>>, a clock time <<hour, minute>>. *)
(***************************************************************************)
Event(title, date, start, end, recurring, pattern, description, type) ==
    [title |-> title, date |-> date, start_time |-> start, end_time |-> end,
     recurring |-> recurring, recurrence_pattern |-> pattern,
     description |-> description, type |-> type]

get_sample_events ==
    << Event("Midterm Exam", <<2025, 3, 15>>, <<14, 0>>, <<16, 0>>, FALSE, "",
             "Midterm examination covering chapters 1-5", "exam"),
       Event("Homework 1 Due", <<2025, 2, 10>>, <<20, 0>>, <<21, 0>>, FALSE, "",
             "Submit homework assignment 1", "assignment"),
       Event("CS101 Lecture", <<2025, 1, 20>>, <<10, 0>>, <<11, 30>>, TRUE, "weekly",
             "Weekly class lecture", "class") >>

\* The i-th event of the list the AI service writes in its n-th completion.  Two
\* completions are never assumed to agree: every call writes events of its own.
AIEvent(n, i) ==
    Event("Quiz", <<2025 + (n \div 12), 1 + (n % 12), 1 + (i % 28)>>, <<9, 0>>, <<10, 0>>, FALSE, "",
          "", "exam")

AIEvents(n, count) == [i \in 1..count |-> AIEvent(n, i)]

(***************************************************************************)
(* The AI service's reply.  A reply either fails (the call raises, or      *)
(* reading response.text raises) or is a text, modelled as a sequence of   *)
(* tokens: Markdown fences and one body.  The body is described by what    *)
(* json.loads makes of it.                                                 *)
(***************************************************************************)
\* the fence that opens a JSON code block, and the bare fence (three backquotes)
FenceJson == [tok |-> "fence_json", kind |-> "", n |-> 0]
Fence     == [tok |-> "fence",      kind |-> "", n |-> 0]
Body(kind, n) == [tok |-> "body", kind |-> kind, n |-> n]

\* "array_numbers" is a JSON array of n numbers.
\* bodies: "text" is not JSON; "object_events" is {"events": [n events]};
\* "object_no_events" is a JSON object without the key; "events_null" is
\* {"events": null}; "array" is a JSON array of n strings; "string" is a JSON
\* string of n characters; "number" and "null" are those JSON values.
Reply(ok, text) == [ok |-> ok, text |-> text]

CallError == Reply(FALSE, <<>>)

Bare(body)        == Reply(TRUE, <<body>>)
Fenced(body)      == Reply(TRUE, <<FenceJson, body, Fence>>)
PlainFenced(body) == Reply(TRUE, <<Fence, body, Fence>>)

\* response.text with both kinds of fence replaced by "", then .strip()
StripFences(text) == Filter(text, Range(text) \ {FenceJson, Fence})

\* json.loads: [ok, kind, n]; it raises unless the text is exactly one JSON value
json_loads(text) ==
    IF Len(text) = 1 /\ text[1].tok = "body" /\ text[1].kind # "text"
    THEN [ok |-> TRUE, kind |-> text[1].kind, n |-> text[1].n]
    ELSE [ok |-> FALSE, kind |-> "", n |-> 0]

\* The try block shared by both extraction paths (app.py:138-146, 166-173):
\* [raised, events]
ParseEvents(reply, call) ==
    IF ~reply.ok THEN [raised |-> TRUE, events |-> <<>>]
    ELSE LET events_json == json_loads(StripFences(reply.text))
         IN  IF ~events_json.ok THEN [raised |-> TRUE, events |-> <<>>]
             \* .get on a value that is no dict raises AttributeError
             ELSE IF events_json.kind \notin {"object_events", "object_no_events", "events_null"}
                  THEN [raised |-> TRUE, events |-> <<>>]
             \* events_json.get("events", [])
             ELSE IF events_json.kind = "object_no_events"
                  THEN [raised |-> FALSE, events |-> <<>>]
             \* len(None) raises TypeError
             ELSE IF events_json.kind = "events_null"
                  THEN [raised |-> TRUE, events |-> <<>>]
             ELSE [raised |-> FALSE,
                   events |-> Prefix(AIEvents(call, events_json.n), MaxEvents)]

extract_dates_with_gemini_text(reply, call) ==
    LET r == ParseEvents(reply, call)
    IN  IF r.raised THEN <<>> ELSE r.events

\* the vision path answering a failure as the text path does, with []
extract_dates_with_gemini_vision_empty(reply, call) ==
    LET r == ParseEvents(reply, call)
    IN  IF r.raised THEN <<>> ELSE r.events

extract_dates_with_gemini_vision(reply, call) ==
    LET r == ParseEvents(reply, call)
    IN  IF r.raised THEN get_sample_events ELSE r.events

\* gemini_helper.py:14-84: [none, events].  No len() and no [:25] here, so
\* {"events": null} is returned as it is (None).
extract_syllabus_info(reply, call) ==
    IF ~reply.ok THEN [none |-> FALSE, events |-> <<>>]
    ELSE LET events_data == json_loads(StripFences(reply.text))
         IN  \* json.JSONDecodeError, caught by the inner except
             IF ~events_data.ok THEN [none |-> FALSE, events |-> <<>>]
             \* AttributeError on .get, caught by the outer except
             ELSE IF events_data.kind \notin {"object_events", "object_no_events", "events_null"}
                  THEN [none |-> FALSE, events |-> <<>>]
             ELSE IF events_data.kind = "object_no_events"
                  THEN [none |-> FALSE, events |-> <<>>]
             ELSE IF events_data.kind = "events_null"
                  THEN [none |-> TRUE, events |-> <<>>]
             ELSE [none |-> FALSE, events |-> AIEvents(call, events_data.n)]

(***************************************************************************)
(* The LRU file cache (app.py:67-76).                                      *)
(***************************************************************************)
Keys(cache) == {cache[i].key : i \in DOMAIN cache}

\* file_cache[key]
Lookup(cache, key) == (CHOOSE i \in DOMAIN cache : cache[i].key = key)

\* OrderedDict.move_to_end(key)
move_to_end(cache, key) ==
    LET i == Lookup(cache, key)
    IN  SubSeq(cache, 1, i - 1) \o SubSeq(cache, i + 1, Len(cache)) \o <<cache[i]>>

\* the assignment indented under `if key in file_cache:`: a new key is never stored
SetItemIfPresent(cache, key, value) ==
    IF key \in Keys(cache)
    THEN [cache EXCEPT ![(CHOOSE i \in DOMAIN cache : cache[i].key = key)].value = value]
    ELSE cache

\* file_cache[key] = value: a present key keeps its place, a new one goes last
SetItem(cache, key, value) ==
    IF key \in Keys(cache)
    THEN [cache EXCEPT ![Lookup(cache, key)].value = value]
    ELSE Append(cache, [key |-> key, value |-> value])

\* the variant of cache_put that forgets to evict
cache_put_no_evict(cache, key, value) ==
    SetItem(IF key \in Keys(cache) THEN move_to_end(cache, key) ELSE cache, key, value)

cache_put(cache, key, value) ==
    LET moved  == IF key \in Keys(cache) THEN move_to_end(cache, key) ELSE cache
        stored == SetItem(moved, key, value)
    IN  \* popitem(last=False)
        IF Len(stored) > MAX_CACHE_ITEMS THEN Tail(stored) ELSE stored

(***************************************************************************)
(* Documents.  A document is known by its fingerprint (hashlib.md5 of its  *)
(* bytes, app.py:374): documents 1, 2, ... are distinct byte sequences.    *)
(* What the text extractor finds in a document is a property of its bytes. *)
(***************************************************************************)
\* length of the stripped text of document f: nothing, short, the limit, long
DocTextLen(f) == <<0, 40, 100, 101, 7000>>[(f % 5) + 1]

\* whether fitz.open reads the bytes as a PDF (it raises otherwise)
PdfOpens(f) == f % 3 # 0

Mimes == {"application/pdf", "text/plain", "image/png"}

None == -1

\* extract_text_fast: the length of the text returned, None when it returns None
extract_text_fast(f, mime_type, pymupdf) ==
    IF mime_type = "application/pdf" /\ pymupdf
    THEN IF PdfOpens(f) THEN DocTextLen(f) ELSE None
    ELSE IF mime_type = "text/plain" THEN DocTextLen(f)
    ELSE None

\* `extracted_text and len(extracted_text) > 100` (app.py:382)
\* variant: >= for >
TextRichOrEqual(extracted) == extracted # None /\ extracted >= MinTextLen

TextRich(extracted) == extracted # None /\ extracted > MinTextLen

(***************************************************************************)
(* The replies the AI service gives to an extraction call.                 *)
(***************************************************************************)
PlainReplies == {Bare(Body("object_events", 1)), Fenced(Body("object_events", 1))}

OddReplies ==
    {CallError, Bare(Body("text", 0)), Fenced(Body("object_no_events", 0))}

(***************************************************************************)
(* POST /upload (app.py:357-397).                                          *)
(***************************************************************************)
NoUpload ==
    [status |-> 0, success |-> FALSE, events |-> <<>>, hit |-> FALSE,
     text_path |-> FALSE, vision_path |-> FALSE, extracted |-> None,
     failed |-> FALSE, size_before |-> 0, evicted |-> {}]

NoPrev == [hash |-> 0, hit |-> FALSE, events |-> <<>>]

upload_syllabus(has_file, filename, f, mime, reply) ==
    /\ prev' = [hash |-> request.hash, hit |-> response.hit, events |-> response.events]
    /\ IF ~has_file \/ filename = ""
       THEN \* 'No file provided' / 'No file selected'
            /\ request' = [endpoint |-> "upload", hash |-> 0]
            /\ response' = [NoUpload EXCEPT !.status = 400]
            /\ UNCHANGED <<file_cache, has_pymupdf, seen, ai_calls, odd_replies>>
       ELSE /\ request' = [endpoint |-> "upload", hash |-> f]
            /\ seen' = IF f > seen THEN f ELSE seen
            /\ IF f \in Keys(file_cache)
               THEN \* served from the cache
                    /\ response' = [NoUpload EXCEPT
                                      !.status = 200, !.success = TRUE, !.hit = TRUE,
                                      !.events = file_cache[Lookup(file_cache, f)].value,
                                      !.size_before = Len(file_cache)]
                    /\ UNCHANGED <<file_cache, has_pymupdf, ai_calls, odd_replies>>
               ELSE LET extracted == extract_text_fast(f, mime, has_pymupdf)
                        call      == ai_calls + 1
                        routed    == IF TextRich(extracted)
                                     THEN [path |-> "text",
                                           events |-> extract_dates_with_gemini_text(reply, call)]
                                     ELSE [path |-> "vision",
                                           events |-> extract_dates_with_gemini_vision(reply, call)]
                        stored    == cache_put(file_cache, f, routed.events)
                    IN  /\ ai_calls < MaxMisses
                        /\ reply \in OddReplies => odd_replies < MaxOddReplies
                        /\ ai_calls' = call
                        /\ odd_replies' = odd_replies + (IF reply \in OddReplies THEN 1 ELSE 0)
                        /\ file_cache' = stored
                        /\ response' = [NoUpload EXCEPT
                                          !.status = 200, !.success = TRUE,
                                          !.events = routed.events,
                                          !.text_path = (routed.path = "text"),
                                          !.vision_path = (routed.path = "vision"),
                                          !.extracted = extracted,
                                          \* the except clause of the path answered
                                          !.failed = ParseEvents(reply, call).raised,
                                          !.size_before = Len(file_cache),
                                          !.evicted = Keys(file_cache) \ Keys(stored)]
                        /\ UNCHANGED has_pymupdf

\* The documents a request may carry: a new one, the one of the last request, the
\* oldest entry of the cache, and every document the cache dropped.
UploadChoices ==
    {seen + 1}
    \cup ({request.hash} \ {0})
    \cup (IF file_cache = <<>> THEN {} ELSE {file_cache[1].key})
    \cup ((1..seen) \ Keys(file_cache))

Init ==
    /\ file_cache = <<>>
    /\ has_pymupdf \in BOOLEAN
    /\ seen = 0
    /\ ai_calls = 0
    /\ odd_replies = 0
    /\ request = [endpoint |-> "none", hash |-> 0]
    /\ response = NoUpload
    /\ prev = NoPrev

\* The requests worth telling apart: what a rejected request or a cache hit carries
\* besides the document is never read.
UploadRequests ==
    {[has_file |-> FALSE, filename |-> "syllabus.pdf", f |-> 1,
      mime |-> "application/pdf", reply |-> CallError],
     [has_file |-> TRUE, filename |-> "", f |-> 1,
      mime |-> "application/pdf", reply |-> CallError]}
    \cup {[has_file |-> TRUE, filename |-> "syllabus.pdf", f |-> f,
           mime |-> "application/pdf", reply |-> CallError] :
             f \in UploadChoices \cap Keys(file_cache)}
    \cup [has_file : {TRUE}, filename : {"syllabus.pdf"},
          f : UploadChoices \ Keys(file_cache), mime : Mimes,
          reply : PlainReplies \cup OddReplies]

Next ==
    \E r \in UploadRequests :
        upload_syllabus(r.has_file, r.filename, r.f, r.mime, r.reply)

Spec == Init /\ [][Next]_vars

(***************************************************************************)
(* Properties of /upload.                                                  *)
(***************************************************************************)
Accepted == response.status = 200 /\ request.endpoint = "upload"
Missed   == Accepted /\ ~response.hit
Repeated == Accepted /\ prev.hash = request.hash

\* C1: when /upload is called twice in a row with the same bytes, the second call
\* finds the fingerprint in the cache, returns the event list the first call
\* returned, and invokes neither the text-mode nor the vision-mode extraction.
C1_RepeatServedFromCache ==
    Repeated =>
        /\ response.hit
        /\ response.events = prev.events
        /\ ~response.text_path
        /\ ~response.vision_path

\* the first call missed and extracted events, the second one was served them
C1_Witness ==
    Repeated /\ response.hit /\ ~prev.hit /\ response.events # <<>>
    /\ Len(file_cache) = MAX_CACHE_ITEMS

\* C2: between requests the cache holds at most 20 entries; a cache_put of a new
\* fingerprint into a cache holding 20 entries removes exactly one entry and
\* leaves the new fingerprint present.
C2_CacheBounded ==
    /\ Len(file_cache) <= MAX_CACHE_ITEMS
    /\ Cardinality(Keys(file_cache)) = Len(file_cache)
    /\ (Missed /\ response.size_before = MAX_CACHE_ITEMS) =>
           /\ Cardinality(response.evicted) = 1
           /\ Len(file_cache) = MAX_CACHE_ITEMS
           /\ request.hash \in Keys(file_cache)

C2_Witness ==
    Missed /\ response.size_before = MAX_CACHE_ITEMS /\ response.evicted # {}

\* C3: a cache hit marks the entry as most recently touched, so an entry that was
\* hit after every other entry was last touched is not the one evicted by the
\* next insertion.
C3_HitEntrySurvives ==
    (Missed /\ prev.hit) => prev.hash \notin response.evicted

\* C10: a cache miss invokes exactly one extraction path: the text path (and
\* never the vision path, also when the text path fails) when the text extractor
\* returns more than 100 characters, the vision path (and not the text path)
\* when it returns nothing or at most 100 characters.
C10_OnePathPerMiss ==
    Missed =>
        /\ response.text_path # response.vision_path
        /\ (response.extracted # None /\ response.extracted > 100)
              => (response.text_path /\ ~response.vision_path)
        /\ (response.extracted = None \/ response.extracted <= 100)
              => (response.vision_path /\ ~response.text_path)

\* the text path was taken for 101 characters and failed: no vision call, no events
C10_Witness ==
    Missed /\ response.extracted = 101 /\ response.text_path
    /\ ~response.vision_path /\ response.events = <<>>

(***************************************************************************)
(* The extraction functions on their own, over every shape of reply.       *)
(***************************************************************************)
ExtractionBodies ==
    {Body("text", 0), Body("object_no_events", 0), Body("events_null", 0),
     Body("array", 2), Body("string", 5), Body("number", 0), Body("null", 0)}
    \cup {Body("object_events", n) : n \in {0, 1, 2, MaxEvents, MaxEvents + 1}}

ExtractionReplies ==
    {CallError}
    \cup {Bare(b) : b \in ExtractionBodies}
    \cup {Fenced(b) : b \in ExtractionBodies}
    \cup {PlainFenced(b) : b \in ExtractionBodies}

Extracted(endpoint, reply, result) ==
    /\ ai_calls < MaxParseCalls
    /\ ai_calls' = ai_calls + 1
    /\ request' = [endpoint |-> endpoint, hash |-> 0, reply |-> reply]
    /\ response' = [status |-> 200, none |-> result.none, events |-> result.events]
    /\ UNCHANGED <<file_cache, has_pymupdf, seen, odd_replies, prev>>

ExtractText ==
    \E reply \in ExtractionReplies :
        Extracted("extract_dates_with_gemini_text", reply,
                  [none |-> FALSE,
                   events |-> extract_dates_with_gemini_text(reply, ai_calls + 1)])

ExtractVision ==
    \E reply \in ExtractionReplies :
        Extracted("extract_dates_with_gemini_vision", reply,
                  [none |-> FALSE,
                   events |-> extract_dates_with_gemini_vision(reply, ai_calls + 1)])

ExtractHelper ==
    \E reply \in ExtractionReplies :
        Extracted("extract_syllabus_info", reply, extract_syllabus_info(reply, ai_calls + 1))

InitParse ==
    /\ file_cache = <<>>
    /\ has_pymupdf = TRUE
    /\ seen = 0
    /\ ai_calls = 0
    /\ odd_replies = 0
    /\ request = [endpoint |-> "none", hash |-> 0]
    /\ response = NoUpload
    /\ prev = NoPrev

NextParse == ExtractText \/ ExtractVision \/ ExtractHelper

SpecParse == InitParse /\ [][NextParse]_vars

ExtractionEndpoints ==
    {"extract_dates_with_gemini_text", "extract_dates_with_gemini_vision",
     "extract_syllabus_info"}

\* the body of the reply handed to the extraction function called last
ReplyKind ==
    IF request.endpoint \in ExtractionEndpoints /\ request.reply.ok
    THEN (CHOOSE t \in Range(request.reply.text) : t.tok = "body").kind
    ELSE "none"

NotJson == ReplyKind \in {"text"}
\* JSON values that hold no `events` key: an object without it, and the values
\* that are no object at all
JsonNoEventsKey == ReplyKind \in {"object_no_events", "array", "string", "number", "null"}

\* C7 (as claimed): for the text-mode and the vision-mode extraction alike, model
\* output that is not JSON, or JSON without an `events` key, yields an empty
\* event list.
C7_MalformedYieldsEmpty ==
    (NotJson \/ JsonNoEventsKey) => (response.events = <<>> /\ ~response.none)

\* C7 (amended): malformed output never raises; the text-mode extraction and
\* extract_syllabus_info yield an empty list for it; the vision-mode extraction
\* yields an empty list for a JSON object without the `events` key and the
\* built-in sample events for output that is not JSON or not a JSON object.
C7_MalformedByMode ==
    (NotJson \/ JsonNoEventsKey) =>
        /\ ~response.none
        /\ request.endpoint # "extract_dates_with_gemini_vision" => response.events = <<>>
        /\ request.endpoint = "extract_dates_with_gemini_vision" =>
              IF ReplyKind = "object_no_events"
              THEN response.events = <<>>
              ELSE response.events = get_sample_events

\* the vision-mode extraction was given fenced text that is not JSON
C7_Witness ==
    /\ request.endpoint = "extract_dates_with_gemini_vision"
    /\ NotJson
    /\ Len(request.reply.text) = 3
    /\ response.events = get_sample_events

(***************************************************************************)
(* Dates: datetime.strptime(s, '%Y-%m-%d'), timedelta arithmetic and        *)
(* strftime('%Y-%m-%d'), computed as datetime does, on the proleptic       *)
(* Gregorian ordinal of the date (1 is 0001-01-01).                        *)
(***************************************************************************)
NoDate == <<>>

IsLeap(y) == y % 4 = 0 /\ (y % 100 # 0 \/ y % 400 = 0)

DaysInMonth(y, m) ==
    IF m = 2 THEN (IF IsLeap(y) THEN 29 ELSE 28)
    ELSE IF m \in {4, 6, 9, 11} THEN 30 ELSE 31

DaysInYear(y) == IF IsLeap(y) THEN 366 ELSE 365

DaysBeforeYear(y) ==
    LET p == y - 1 IN p * 365 + (p \div 4) - (p \div 100) + (p \div 400)

RECURSIVE DaysBeforeMonth(_, _)
DaysBeforeMonth(y, m) ==
    IF m = 1 THEN 0 ELSE DaysBeforeMonth(y, m - 1) + DaysInMonth(y, m - 1)

ValidDate(d) ==
    /\ Len(d) = 3
    /\ d[1] \in 1..9999
    /\ d[2] \in 1..12
    /\ d[3] \in 1..DaysInMonth(d[1], d[2])

\* date.toordinal()
ToOrdinal(d) == DaysBeforeYear(d[1]) + DaysBeforeMonth(d[1], d[2]) + d[3]

RECURSIVE YearOf(_, _)
YearOf(n, y) == IF n > DaysBeforeYear(y) + DaysInYear(y) THEN YearOf(n, y + 1) ELSE y

RECURSIVE MonthOf(_, _, _)
MonthOf(rest, y, m) ==
    IF rest > DaysInMonth(y, m) THEN MonthOf(rest - DaysInMonth(y, m), y, m + 1)
    ELSE <<y, m, rest>>

\* date.fromordinal(n)
FromOrdinal(n) ==
    LET y == YearOf(n, ((n - 1) \div 366) + 1)
    IN  MonthOf(n - DaysBeforeYear(y), y, 1)

\* d + timedelta(days=days)
PlusDays(d, days) == FromOrdinal(ToOrdinal(d) + days)

\* variant: the offset added instead of subtracted
MinusDaysAdded(d, days) == FromOrdinal(ToOrdinal(d) + days)

\* d - timedelta(days=days)
MinusDays(d, days) == FromOrdinal(ToOrdinal(d) - days)

(***************************************************************************)
(* Titles are sequences of characters.                                     *)
(***************************************************************************)
\* str.lower() on the letters the titles use
LowerChar(c) ==
    CASE c = "A" -> "a" [] c = "E" -> "e" [] c = "I" -> "i" [] c = "M" -> "m"
      [] c = "R" -> "r" [] c = "V" -> "v" [] c = "W" -> "w" [] c = "X" -> "x"
      [] OTHER -> c

Lower(s) == [i \in DOMAIN s |-> LowerChar(s[i])]

\* sub in s
Contains(s, sub) ==
    \E i \in 1..(Len(s) - Len(sub) + 1) : SubSeq(s, i, i + Len(sub) - 1) = sub

review == <<"r", "e", "v", "i", "e", "w">>

(***************************************************************************)
(* generate_ai_study_tips (app.py:216-251).  A tips value is described by  *)
(* its JSON type, what it holds, how many, and where it comes from.        *)
(***************************************************************************)
Tips(type, of, n, source) == [type |-> type, of |-> of, n |-> n, source |-> source]

FallbackTips == Tips("array", "strings", 3, "fallback")

\* response.text.strip(), then the leading json fence and the trailing fence cut
\* off when the text starts / ends with them
CutFences(text) ==
    LET a == IF text # <<>> /\ Head(text) = FenceJson THEN Tail(text) ELSE text
    IN  IF a # <<>> /\ a[Len(a)] = Fence THEN SubSeq(a, 1, Len(a) - 1) ELSE a

generate_ai_study_tips(reply) ==
    IF ~reply.ok THEN FallbackTips
    ELSE LET tips == json_loads(CutFences(reply.text))
         IN  IF ~tips.ok THEN FallbackTips
             \* tips[:3] of a list or of a str; of anything else it raises
             ELSE IF tips.kind = "array" THEN Tips("array", "strings", Min(tips.n, 3), "ai")
             ELSE IF tips.kind = "array_numbers"
                  THEN Tips("array", "numbers", Min(tips.n, 3), "ai")
             ELSE IF tips.kind = "string" THEN Tips("string", "chars", Min(tips.n, 3), "ai")
             ELSE FallbackTips

(***************************************************************************)
(* POST /generate-study-sessions (app.py:399-453).                         *)
(***************************************************************************)
\* the sessions of the loop at app.py:422-447, for offsets i..Len(days_before)
RECURSIVE StudySessions(_, _, _, _)
StudySessions(exam_event, days_before, replies, i) ==
    IF i > Len(days_before) THEN <<>>
    ELSE LET study_date == MinusDays(exam_event.date, days_before[i])
             session ==
                 [title |-> (IF i = 1 THEN <<"Review: ">> ELSE <<"Practice: ">>)
                              \o exam_event.title,
                  date |-> study_date,
                  start_time |-> <<19, 0>>,
                  end_time |-> <<21, 0>>,
                  recurring |-> FALSE,
                  recurrence_pattern |-> "",
                  description |-> <<"Study session for ">> \o exam_event.title,
                  type |-> "study-session",
                  \* the first session carries the exam's tips, every later one
                  \* the tips of a call of its own
                  study_tips |-> generate_ai_study_tips(replies[i])]
         IN  <<session>> \o StudySessions(exam_event, days_before, replies, i + 1)

StudyResponse(exam_event, days_before, replies) ==
    IF Contains(Lower(exam_event.title), review)
    THEN [status |-> 200, success |-> TRUE, study_sessions |-> <<>>, tip_calls |-> 0]
    \* strptime raises on a missing or malformed date, after the first tip call
    ELSE IF ~ValidDate(exam_event.date)
    THEN [status |-> 500, success |-> FALSE, study_sessions |-> <<>>, tip_calls |-> 1]
    ELSE [status |-> 200, success |-> TRUE,
          study_sessions |-> StudySessions(exam_event, days_before, replies, 1),
          tip_calls |-> IF days_before = <<>> THEN 1 ELSE Len(days_before)]

\* the handler answers the request that is waiting
generate_study_sessions ==
    /\ request.endpoint = "generate-study-sessions"
    /\ response.status = 0
    /\ response' = StudyResponse(request.exam_event, request.days_before, request.replies)
    /\ UNCHANGED <<file_cache, has_pymupdf, seen, ai_calls, odd_replies, request, prev>>

ExamTitles ==
    { <<"E", "x", "a", "m">>,
      <<"R", "e", "v", "u", "e">>,
      <<"R", "e", "v", "i", "e", "w">>,
      <<"M", "i", "d", " ", "R", "E", "V", "I", "E", "W">>,
      <<"p", "r", "e", "V", "i", "e", "W", "s">>,
      <<"r", "e", "v", "i", "e", "w", " ", "1">> }

ExamDates ==
    { <<2025, 3, 15>>, <<2025, 3, 1>>, <<2024, 3, 1>>, <<2000, 3, 2>>,
      <<2100, 3, 1>>, <<2025, 1, 1>>, NoDate }

Offsets == {1, 2, 5}

TipReplies ==
    { CallError, Bare(Body("text", 0)), Bare(Body("array", 2)),
      Fenced(Body("array", 3)), Bare(Body("array", 4)), PlainFenced(Body("array", 3)),
      Bare(Body("string", 5)), Bare(Body("object_no_events", 0)),
      Bare(Body("array_numbers", 3)) }

\* the sequences over S of length lo..hi
SeqsOf(S, lo, hi) == UNION {[1..k -> S] : k \in lo..hi}

\* the requests: an exam, its offsets, and one reply for every tip call the
\* request can make
StudyRequests ==
    UNION { [endpoint : {"generate-study-sessions"}, hash : {0},
             exam_event : [title : ExamTitles, date : ExamDates],
             days_before : {days_before},
             replies : IF days_before = <<>> THEN SeqsOf(TipReplies, 1, 1)
                       ELSE SeqsOf(TipReplies, Len(days_before), Len(days_before))] :
            days_before \in SeqsOf(Offsets, 0, MaxSessions) }

InitStudy ==
    /\ file_cache = <<>>
    /\ has_pymupdf = TRUE
    /\ seen = 0
    /\ ai_calls = 0
    /\ odd_replies = 0
    /\ request \in StudyRequests
    /\ response = NoUpload
    /\ prev = NoPrev

NextStudy == generate_study_sessions

SpecStudy == InitStudy /\ [][NextStudy]_vars

(***************************************************************************)
(* Properties of /generate-study-sessions.                                 *)
(***************************************************************************)
Planned == request.endpoint = "generate-study-sessions" /\ response.status # 0

\* what the reply of a tip call holds once its fences are cut
TipKind(reply) ==
    IF ~reply.ok THEN [ok |-> FALSE, kind |-> "", n |-> 0]
    ELSE json_loads(CutFences(reply.text))

\* C6: every study session carries a study_tips sequence of exactly 3 strings,
\* whatever the AI service returns: a call error, unparseable output or an array
\* of fewer than 3 items yields the fixed fallback list, a longer array is cut to
\* 3, and tip generation never makes the request fail.
C6_ExactlyThreeTips ==
    Planned =>
        /\ ValidDate(request.exam_event.date) => response.status = 200
        /\ \A i \in DOMAIN response.study_sessions :
              LET tips == response.study_sessions[i].study_tips
                  got  == TipKind(request.replies[i])
              IN  /\ tips.type = "array" /\ tips.of = "strings" /\ tips.n = 3
                  /\ (~got.ok \/ got.kind # "array" \/ got.n < 3) => tips = FallbackTips
                  /\ (got.ok /\ got.kind = "array" /\ got.n >= 3)
                        => tips = Tips("array", "strings", 3, "ai")

\* the calendar day after d, and the day k days after d
NextDay(d) ==
    IF d[3] < DaysInMonth(d[1], d[2]) THEN <<d[1], d[2], d[3] + 1>>
    ELSE IF d[2] < 12 THEN <<d[1], d[2] + 1, 1>>
    ELSE <<d[1] + 1, 1, 1>>

RECURSIVE DaysLater(_, _)
DaysLater(d, k) ==
    IF k = 0 THEN d
    ELSE IF k = 1 THEN NextDay(d)
    ELSE LET half == DaysLater(d, k \div 2)
         IN  IF half[1] >= d[1] THEN DaysLater(half, k - (k \div 2)) ELSE NoDate

\* C9: for an exam whose title does not contain "review" in any letter case the
\* planner returns one session per offset of days_before, in order, dated that
\* many days before the exam, from 19:00 to 21:00, not recurring, of type
\* "study-session", the first a Review of the exam and every later one a
\* Practice; for a title that contains "review" it returns no session and makes
\* no tip call.
C9_OneSessionPerOffset ==
    Planned =>
        LET exam     == request.exam_event
            days     == request.days_before
            sessions == response.study_sessions
        IN  IF \E i \in 1..(Len(exam.title) - 5) :
                   /\ exam.title[i] \in {"r", "R"}
                   /\ exam.title[i + 1] \in {"e", "E"}
                   /\ exam.title[i + 2] \in {"v", "V"}
                   /\ exam.title[i + 3] \in {"i", "I"}
                   /\ exam.title[i + 4] \in {"e", "E"}
                   /\ exam.title[i + 5] \in {"w", "W"}
            THEN response.status = 200 /\ sessions = <<>> /\ response.tip_calls = 0
            ELSE ValidDate(exam.date) =>
                   /\ response.status = 200
                   /\ Len(sessions) = Len(days)
                   /\ \A i \in DOMAIN sessions :
                         /\ ValidDate(sessions[i].date)
                         /\ DaysLater(sessions[i].date, days[i]) = exam.date
                         /\ sessions[i].start_time = <<19, 0>>
                         /\ sessions[i].end_time = <<21, 0>>
                         /\ sessions[i].recurring = FALSE
                         /\ sessions[i].type = "study-session"
                         /\ sessions[i].title =
                               (IF i = 1 THEN <<"Review: ">> ELSE <<"Practice: ">>) \o exam.title
                   /\ (exam.date = <<2025, 3, 15>> /\ days = <<5, 2>>) =>
                         /\ sessions[1].date = <<2025, 3, 10>>
                         /\ sessions[2].date = <<2025, 3, 13>>

\* two sessions planned across the turn of the year
C9_Witness ==
    /\ Planned
    /\ request.exam_event.title = <<"E", "x", "a", "m">>
    /\ request.exam_event.date = <<2025, 1, 1>>
    /\ request.days_before = <<5, 2>>
    /\ Len(response.study_sessions) = 2
    /\ response.study_sessions[1].date = <<2024, 12, 27>>
    /\ response.study_sessions[2].date = <<2024, 12, 30>>
    /\ response.study_sessions[2].title = <<"Practice: ", "E", "x", "a", "m">>

(***************************************************************************)
(* POST /add-to-calendar (app.py:455-563).                                 *)
(*                                                                         *)
(* A time field of a submitted event is a clock time <<hour, minute>> (the *)
(* string "HH:MM"), or one of: the key is absent, the value is null, the   *)
(* value is the empty string, the value is a string that is no time.       *)
(***************************************************************************)
Absent    == <<-1>>
Null      == <<-2>>
Malformed == <<-3>>
Empty     == <<>>

IsTime(t) == Len(t) = 2

\* event_data.get(key, default)
Get(value, default) == IF value = Absent THEN default ELSE value

\* `not t or t == ''`
Falsy(t) == t \in {Null, Empty}

\* datetime.strptime(t, '%H:%M'): minutes since 1900-01-01 00:00
Minutes(t) == t[1] * 60 + t[2]

\* dt.strftime('%H:%M'): the day the datetime has moved to is not printed
Clock(minutes) == <<(minutes \div 60) % 24, minutes % 60>>

TypeAbsent == "<absent>"
TypeNull   == "<null>"

EventTypes ==
    {"exam", "final_exam", "assignment", "homework", "class", "study-session",
     TypeAbsent, TypeNull}

Homework(type) == type \in {"assignment", "homework"}

\* 'exam' in type, for the types above
ContainsExam(type) == type \in {"exam", "final_exam"}

Times(raised, start, end) == [raised |-> raised, start_time |-> start, end_time |-> end]

Raised == Times(TRUE, Empty, Empty)

\* app.py:470-480: the defaults of .get, then a missing start time
ResolveStart(event_data) ==
    LET start_time == Get(event_data.start_time, <<10, 0>>)
        end_time   == Get(event_data.end_time, <<11, 0>>)
    IN  IF Falsy(start_time)
        THEN IF Homework(event_data.type)
             THEN Times(FALSE, <<20, 0>>, <<21, 0>>)
             ELSE Times(FALSE, <<10, 0>>, <<11, 0>>)
        ELSE Times(FALSE, start_time, end_time)

\* app.py:482-492: a missing end time
ResolveEnd(event_data, t) ==
    IF ~Falsy(t.end_time) THEN t
    ELSE IF Homework(event_data.type) THEN Times(FALSE, t.start_time, <<21, 0>>)
    \* 'exam' in None raises TypeError
    ELSE IF event_data.type = TypeNull THEN Raised
    ELSE IF ContainsExam(event_data.type) THEN Times(FALSE, t.start_time, <<12, 0>>)
    \* strptime raises ValueError on a string that is no time
    ELSE IF ~IsTime(t.start_time) THEN Raised
    ELSE Times(FALSE, t.start_time, Clock(Minutes(t.start_time) + 60))

\* the times as resolved before the check of the duration
ResolveTimes(event_data) == ResolveEnd(event_data, ResolveStart(event_data))

\* app.py:494-500: end after start
EnsurePositive(t) ==
    IF t.raised \/ ~IsTime(t.start_time) \/ ~IsTime(t.end_time) THEN Raised
    ELSE IF Minutes(t.end_time) <= Minutes(t.start_time)
         THEN Times(FALSE, t.start_time, Clock(Minutes(t.start_time) + 60))
         ELSE t

\* variant: only the start time is compared with 23:59
MidnightDeadlineStartOnly(t) ==
    IF ~t.raised /\ t.start_time = <<23, 59>>
    THEN Times(FALSE, <<20, 0>>, <<21, 0>>)
    ELSE t

\* app.py:502-505: a deadline at 23:59
MidnightDeadline(t) ==
    IF ~t.raised /\ (t.start_time = <<23, 59>> \/ t.end_time = <<23, 59>>)
    THEN Times(FALSE, <<20, 0>>, <<21, 0>>)
    ELSE t

NormalizeTimes(event_data) ==
    MidnightDeadline(EnsurePositive(ResolveTimes(event_data)))

NoPayload ==
    [summary |-> <<>>, date |-> NoDate, start |-> Empty, end |-> Empty,
     recurrence |-> <<>>, tips |-> FALSE]

\* variant: timedelta(days=16) for timedelta(weeks=16)
RecurrenceEndDays(date) == PlusDays(date, 16)

\* app.py:524-525: the end of the semester, 16 weeks after the event
RecurrenceEnd(date) == PlusDays(date, 16 * 7)

\* app.py:527-529: RRULE:FREQ=WEEKLY;UNTIL=<end_date as %Y%m%dT%H%M%SZ>; the
\* datetime parsed from a date alone is at 00:00:00
WeeklyRule(date) ==
    [freq |-> "WEEKLY", until |-> RecurrenceEnd(date), time |-> <<0, 0, 0>>, zone |-> "Z"]

\* app.py:468-538: the body handed to events().insert for one event, or raised
BuildEvent(event_data) ==
    LET t == NormalizeTimes(event_data)
        weekly == event_data.recurring /\ event_data.recurrence_pattern = "weekly"
        with_tips == event_data.type = "study-session" /\ event_data.study_tips # "absent"
    IN  IF t.raised THEN [raised |-> TRUE, event |-> NoPayload]
        \* event_data['title'], event_data['date']: KeyError
        ELSE IF ~event_data.has_title \/ event_data.date = NoDate
             THEN [raised |-> TRUE, event |-> NoPayload]
        \* strptime(event_data['date'], '%Y-%m-%d') of a recurring event
        ELSE IF weekly /\ ~ValidDate(event_data.date)
             THEN [raised |-> TRUE, event |-> NoPayload]
        \* "\n".join of tips that are no strings: TypeError
        ELSE IF with_tips /\ event_data.study_tips = "numbers"
             THEN [raised |-> TRUE, event |-> NoPayload]
        ELSE [raised |-> FALSE,
              event |-> [summary |-> event_data.title,
                         date |-> event_data.date,
                         start |-> t.start_time,
                         end |-> t.end_time,
                         recurrence |-> IF weekly
                                        THEN <<WeeklyRule(event_data.date)>>
                                        ELSE <<>>,
                         tips |-> with_tips]]

\* The loop at app.py:467-547 from event i on: [aborted, outcomes].  An event
\* that raises is answered by the except clause, which prints
\* event_data['title']: for an event without a title that raises again, out of
\* the loop.
RECURSIVE AddEvents(_, _, _)
AddEvents(events, insert_ok, i) ==
    IF i > Len(events) THEN [aborted |-> FALSE, outcomes |-> <<>>]
    ELSE LET built == BuildEvent(events[i])
             failed == built.raised \/ ~insert_ok[i]
             outcome == [result |-> IF built.raised THEN "skipped"
                                    ELSE IF insert_ok[i] THEN "inserted"
                                    ELSE "insert_failed",
                         \* start_time and end_time as they stand at app.py:494
                         resolved |-> ResolveTimes(events[i]),
                         event |-> built.event]
             rest == AddEvents(events, insert_ok, i + 1)
         IN  IF failed /\ ~events[i].has_title
             THEN [aborted |-> TRUE,
                   outcomes |-> IF built.raised THEN <<>> ELSE <<outcome>>]
             ELSE [aborted |-> rest.aborted, outcomes |-> <<outcome>> \o rest.outcomes]

Count(outcomes, result) == Cardinality({i \in DOMAIN outcomes : outcomes[i].result = result})

CalendarResponse(authenticated, events, insert_ok) ==
    IF ~authenticated
    THEN [status |-> 401, success |-> FALSE, added_events |-> 0, recurring_events |-> 0,
          single_events |-> 0, outcomes |-> <<>>]
    ELSE LET done == AddEvents(events, insert_ok, 1)
             recurring_count == Cardinality({i \in DOMAIN events : events[i].recurring})
         IN  IF done.aborted
             THEN [status |-> 500, success |-> FALSE, added_events |-> 0,
                   recurring_events |-> 0, single_events |-> 0, outcomes |-> done.outcomes]
             ELSE [status |-> 200, success |-> TRUE,
                   added_events |-> Count(done.outcomes, "inserted"),
                   recurring_events |-> recurring_count,
                   single_events |-> Len(events) - recurring_count,
                   outcomes |-> done.outcomes]

\* the handler answers the request that is waiting
add_to_calendar ==
    /\ request.endpoint = "add-to-calendar"
    /\ response.status = 0
    /\ response' = CalendarResponse(request.authenticated, request.events, request.insert_ok)
    /\ UNCHANGED <<file_cache, has_pymupdf, seen, ai_calls, odd_replies, request, prev>>

(***************************************************************************)
(* The requests of the calendar specification.                             *)
(***************************************************************************)
ClockTimes ==
    { <<0, 0>>, <<9, 30>>, <<10, 0>>, <<12, 0>>, <<20, 0>>, <<21, 0>>, <<22, 59>>,
      <<23, 0>>, <<23, 30>>, <<23, 58>>, <<23, 59>> }

TimeFields == ClockTimes \cup {Absent, Null, Empty, Malformed}

CalendarEvent(title, date, start, end, recurring, pattern, type, tips) ==
    [has_title |-> title # <<>>, title |-> title, date |-> date,
     start_time |-> start, end_time |-> end, recurring |-> recurring,
     recurrence_pattern |-> pattern, type |-> type, study_tips |-> tips]

Quiz == <<"Q", "u", "i", "z">>

\* one event, over every combination of its time fields and its type
SingleEvents ==
    { CalendarEvent(Quiz, <<2025, 1, 20>>, start, end, rec[1], rec[2], type, "absent") :
        start \in TimeFields, end \in TimeFields, type \in EventTypes,
        rec \in {<<FALSE, "">>, <<TRUE, "weekly">>, <<TRUE, "daily">>, <<FALSE, "weekly">>} }

\* the events of a batch: a sound one, one without a title, one without a date,
\* one whose start time is no time, a late one, a study session with its tips
BatchEvents ==
    { CalendarEvent(Quiz, <<2025, 1, 20>>, <<10, 0>>, <<11, 30>>, TRUE, "weekly", "class", "absent"),
      CalendarEvent(<<>>, <<2025, 2, 10>>, <<20, 0>>, <<21, 0>>, FALSE, "", "assignment", "absent"),
      CalendarEvent(Quiz, NoDate, <<14, 0>>, <<16, 0>>, FALSE, "", "exam", "absent"),
      CalendarEvent(Quiz, <<2025, 3, 15>>, Malformed, Empty, FALSE, "", "class", "absent"),
      CalendarEvent(Quiz, <<2025, 2, 10>>, <<23, 59>>, Empty, FALSE, "", "assignment", "absent"),
      CalendarEvent(Quiz, <<2025, 3, 10>>, <<19, 0>>, <<21, 0>>, FALSE, "", "study-session", "strings"),
      CalendarEvent(Quiz, <<2025, 3, 13>>, <<19, 0>>, <<21, 0>>, FALSE, "", "study-session", "numbers") }

\* a date that strptime does not read
BadDate == <<0>>

\* one lecture, over its date and its recurrence fields
RecurringEvents ==
    { CalendarEvent(Quiz, date, <<10, 0>>, <<11, 30>>, recurring, pattern, "class", "absent") :
        date \in { <<2025, 1, 20>>, <<2024, 11, 15>>, <<2023, 12, 1>>, <<2025, 9, 30>>,
                   <<2100, 1, 4>>, BadDate },
        recurring \in BOOLEAN, pattern \in {"", "weekly", "daily", "Weekly"} }

CalendarRequests ==
    [endpoint : {"add-to-calendar"}, hash : {0}, authenticated : {TRUE},
     events : [1..1 -> SingleEvents \cup RecurringEvents], insert_ok : [1..1 -> BOOLEAN]]
    \cup UNION { [endpoint : {"add-to-calendar"}, hash : {0}, authenticated : BOOLEAN,
                  events : [1..k -> BatchEvents], insert_ok : [1..k -> BOOLEAN]] :
                 k \in 0..MaxBatch }

InitCalendar ==
    /\ file_cache = <<>>
    /\ has_pymupdf = TRUE
    /\ seen = 0
    /\ ai_calls = 0
    /\ odd_replies = 0
    /\ request \in CalendarRequests
    /\ response = NoUpload
    /\ prev = NoPrev

NextCalendar == add_to_calendar

SpecCalendar == InitCalendar /\ [][NextCalendar]_vars

(***************************************************************************)
(* Properties of /add-to-calendar.                                         *)
(***************************************************************************)
Submitted == request.endpoint = "add-to-calendar" /\ response.status # 0

\* event i of the request was handed to the calendar API
Handed(i) == i \in DOMAIN response.outcomes /\ response.outcomes[i].result # "skipped"

\* the time field is missing, empty or an HH:MM value
Repairable(t) == t \in {Absent, Null, Empty} \/ IsTime(t)

\* C4: for every combination of missing, empty or HH:MM start_time and end_time
\* and every type, the payload handed to the calendar API ends strictly later
\* than it starts, on the same date.
C4_EndAfterStart ==
    Submitted =>
        \A i \in DOMAIN request.events :
            (Handed(i) /\ Repairable(request.events[i].start_time)
                       /\ Repairable(request.events[i].end_time)) =>
                LET event == response.outcomes[i].event
                IN  event.end[1] * 60 + event.end[2] > event.start[1] * 60 + event.start[2]

\* C5: failures are isolated per event: whichever events fail to normalize or to
\* insert (events without a title or a date among them), every other event is
\* still attempted in order, the request succeeds, and added_events is the
\* number of events whose insertion succeeded.
C5_FailuresIsolated ==
    (Submitted /\ request.authenticated) =>
        /\ response.status = 200 /\ response.success
        /\ Len(response.outcomes) = Len(request.events)
        /\ \A i \in DOMAIN request.events :
              ~BuildEvent(request.events[i]).raised => Handed(i)
        /\ response.added_events =
              Cardinality({i \in DOMAIN request.events :
                             Handed(i) /\ request.insert_ok[i]})

\* the event has 23:59 as its start or end time, the other time being missing,
\* empty or an HH:MM value
Deadline(e) ==
    /\ Repairable(e.start_time) /\ Repairable(e.end_time)
    /\ (e.start_time = <<23, 59>> \/ e.end_time = <<23, 59>>)

\* C8 (as claimed): an event whose start_time or end_time is 23:59 is handed to
\* the calendar API from 20:00 to 21:00 on its date, whatever its type.
C8_DeadlineAtEight ==
    Submitted =>
        \A i \in DOMAIN request.events :
            (Handed(i) /\ Deadline(request.events[i])) =>
                /\ response.outcomes[i].event.start = <<20, 0>>
                /\ response.outcomes[i].event.end = <<21, 0>>
                /\ response.outcomes[i].event.date = request.events[i].date

\* C8 (amended): such an event is handed over from 20:00 to 21:00 on its date,
\* except when its start_time is present but empty (null or "") and its type is
\* neither assignment nor homework: the default for a missing start time then
\* replaces the end time too, and the event is handed over from 10:00 to 11:00.
C8_DeadlineUnlessStartEmpty ==
    Submitted =>
        \A i \in DOMAIN request.events :
            (Handed(i) /\ Deadline(request.events[i])) =>
                LET e == request.events[i]
                    event == response.outcomes[i].event
                IN  /\ event.date = e.date
                    /\ IF e.start_time \in {Null, Empty} /\ e.type \notin {"assignment", "homework"}
                       THEN event.start = <<10, 0>> /\ event.end = <<11, 0>>
                       ELSE event.start = <<20, 0>> /\ event.end = <<21, 0>>

\* an event that ends at 23:59 and starts at 10:00 was handed over from 20:00
C8_Witness ==
    /\ Submitted
    /\ Len(request.events) = 1
    /\ request.events[1].start_time = <<10, 0>>
    /\ request.events[1].end_time = <<23, 59>>
    /\ Handed(1)
    /\ response.outcomes[1].event.start = <<20, 0>>
    /\ response.outcomes[1].event.end = <<21, 0>>

\* C11: an event carries a recurrence rule in its payload exactly when recurring
\* is true and recurrence_pattern is "weekly"; the rule is a weekly one whose
\* UNTIL is the event's date plus 16 weeks (112 days) at 00:00:00 UTC, so that
\* an event of 2025-01-20 ends on 2025-05-12.
C11_WeeklyRuleSixteenWeeks ==
    Submitted =>
        \A i \in DOMAIN request.events :
            Handed(i) =>
                LET e == request.events[i]
                    rules == response.outcomes[i].event.recurrence
                IN  /\ (rules # <<>>) <=> (e.recurring = TRUE /\ e.recurrence_pattern = "weekly")
                    /\ rules # <<>> =>
                          /\ Len(rules) = 1
                          /\ rules[1].freq = "WEEKLY"
                          /\ rules[1].time = <<0, 0, 0>> /\ rules[1].zone = "Z"
                          /\ ValidDate(rules[1].until)
                          /\ rules[1].until = DaysLater(e.date, 112)
                          /\ e.date = <<2025, 1, 20>> => rules[1].until = <<2025, 5, 12>>

\* the weekly lecture of 2025-01-20 was handed over with a rule until 2025-05-12
C11_Witness ==
    /\ Submitted
    /\ Len(request.events) = 1
    /\ request.events[1].date = <<2025, 1, 20>>
    /\ request.events[1].recurring /\ request.events[1].recurrence_pattern = "weekly"
    /\ Handed(1)
    /\ response.outcomes[1].event.recurrence # <<>>
    /\ response.outcomes[1].event.recurrence[1].until = <<2025, 5, 12>>

\* the key is absent, or its value is null or the empty string
Missing(t) == t \in {Absent, Null, Empty}

\* C12: the times resolved before the check of the duration are those of repair
\* steps 1 and 2, where missing covers an absent key, a null value and an empty
\* string: a missing start_time resolves to 20:00/21:00 for type assignment or
\* homework and to 10:00/11:00 otherwise; with a start_time present, a missing
\* end_time resolves to 21:00 for assignment or homework, to 12:00 for a type
\* containing "exam", and to start_time + 1 hour otherwise.
C12_RepairStepsOneTwo ==
    Submitted =>
        \A i \in DOMAIN response.outcomes :
            LET e == request.events[i]
                r == response.outcomes[i].resolved
            IN  (Repairable(e.start_time) /\ Repairable(e.end_time)) =>
                    /\ ~r.raised
                    /\ Missing(e.start_time) =>
                          IF Homework(e.type)
                          THEN r.start_time = <<20, 0>> /\ r.end_time = <<21, 0>>
                          ELSE r.start_time = <<10, 0>> /\ r.end_time = <<11, 0>>
                    /\ ~Missing(e.start_time) =>
                          /\ r.start_time = e.start_time
                          /\ ~Missing(e.end_time) => r.end_time = e.end_time
                          /\ Missing(e.end_time) =>
                                r.end_time =
                                    IF Homework(e.type) THEN <<21, 0>>
                                    ELSE IF e.type \in {"exam", "final_exam"} THEN <<12, 0>>
                                    ELSE <<(e.start_time[1] + 1) % 24, e.start_time[2]>>

\* C13: a cache entry is created only after a successful extraction: when, on a
\* miss, the AI call or the parsing of its reply fails (the text path answering
\* the empty list, the vision path the sample events), no entry is stored for
\* the fingerprint, and the next upload of the same bytes is not served the
\* failure result from the cache.
C13_FailureNotCached ==
    /\ (Missed /\ response.failed) => request.hash \notin Keys(file_cache)
    /\ (Repeated /\ ~prev.hit /\ prev.events = get_sample_events) => ~response.hit

(***************************************************************************)
(* Two /upload requests served at once.  app.run (app.py:581-585) serves   *)
(* every request on a thread of its own and file_cache has no lock, so the *)
(* handlers interleave between cache operations.  Here request[t] is what  *)
(* thread t is serving (its fingerprint and where it stands), response[t]  *)
(* its local variables and its answer.                                     *)
(***************************************************************************)
Threads == {1, 2}

\* the cache after the documents 1..n were uploaded, one after the other
FilledCache(n) == [k \in 1..n |-> [key |-> k, value |-> AIEvents(k, 1)]]

CacheSizes == {MAX_CACHE_ITEMS - 1, MAX_CACHE_ITEMS}

ConcurrentReplies == {Fenced(Body("object_events", 1)), CallError}

NoLocals == [status |-> 0, success |-> FALSE, events |-> <<>>, hit |-> FALSE, cached |-> <<>>]

At(t, pc) == request[t].pc = pc

Goto(t, pc) == request' = [request EXCEPT ![t].pc = pc]

\* the except clause of upload_syllabus (app.py:394-397)
UploadError(t) ==
    /\ Goto(t, "done")
    /\ response' = [response EXCEPT ![t].status = 500, ![t].success = FALSE]

\* return jsonify({'success': True, 'events': events}) (app.py:392)
UploadDone(t, events) ==
    /\ Goto(t, "done")
    /\ response' = [response EXCEPT ![t].status = 200, ![t].success = TRUE,
                                    ![t].events = events]

\* app.py:374: if file_hash in file_cache
TestCache(t) ==
    /\ At(t, "test")
    /\ LET found == request[t].hash \in Keys(file_cache)
       IN  /\ Goto(t, IF found THEN "read" ELSE "extract")
           /\ response' = [response EXCEPT
                             ![t].hit = found,
                             ![t].cached = IF found
                                           THEN file_cache[Lookup(file_cache, request[t].hash)].value
                                           ELSE <<>>]
    /\ UNCHANGED <<file_cache, has_pymupdf, seen, ai_calls, odd_replies, prev>>

\* app.py:376: events = file_cache[file_hash]; KeyError when the key is gone
ReadCache(t) ==
    /\ At(t, "read")
    /\ IF request[t].hash \in Keys(file_cache)
       THEN UploadDone(t, file_cache[Lookup(file_cache, request[t].hash)].value)
       ELSE UploadError(t)
    /\ UNCHANGED <<file_cache, has_pymupdf, seen, ai_calls, odd_replies, prev>>

\* app.py:378-387: the extraction of a miss
ExtractEvents(t, reply) ==
    /\ At(t, "extract")
    /\ LET extracted == extract_text_fast(request[t].hash, "application/pdf", has_pymupdf)
           call      == ai_calls + 1
           events    == IF TextRich(extracted)
                        THEN extract_dates_with_gemini_text(reply, call)
                        ELSE extract_dates_with_gemini_vision(reply, call)
       IN  /\ ai_calls' = call
           /\ response' = [response EXCEPT ![t].events = events]
    /\ Goto(t, "put_test")
    /\ UNCHANGED <<file_cache, has_pymupdf, seen, odd_replies, prev>>

\* app.py:72: if key in file_cache
PutTest(t) ==
    /\ At(t, "put_test")
    /\ Goto(t, IF request[t].hash \in Keys(file_cache) THEN "put_move" ELSE "put_set")
    /\ UNCHANGED <<file_cache, has_pymupdf, seen, ai_calls, odd_replies, response, prev>>

\* app.py:73: file_cache.move_to_end(key); KeyError when the key is gone
PutMove(t) ==
    /\ At(t, "put_move")
    /\ IF request[t].hash \in Keys(file_cache)
       THEN /\ file_cache' = move_to_end(file_cache, request[t].hash)
            /\ Goto(t, "put_set")
            /\ UNCHANGED response
       ELSE /\ UploadError(t)
            /\ UNCHANGED file_cache
    /\ UNCHANGED <<has_pymupdf, seen, ai_calls, odd_replies, prev>>

\* app.py:74: file_cache[key] = value
PutSet(t) ==
    /\ At(t, "put_set")
    /\ file_cache' = SetItem(file_cache, request[t].hash, response[t].events)
    /\ Goto(t, "put_len")
    /\ UNCHANGED <<has_pymupdf, seen, ai_calls, odd_replies, response, prev>>

\* app.py:75: if len(file_cache) > MAX_CACHE_ITEMS
PutLen(t) ==
    /\ At(t, "put_len")
    /\ IF Len(file_cache) > MAX_CACHE_ITEMS
       THEN Goto(t, "put_pop") /\ UNCHANGED response
       ELSE UploadDone(t, response[t].events)
    /\ UNCHANGED <<file_cache, has_pymupdf, seen, ai_calls, odd_replies, prev>>

\* app.py:76: file_cache.popitem(last=False); KeyError on an empty cache
PutPop(t) ==
    /\ At(t, "put_pop")
    /\ IF file_cache = <<>>
       THEN UploadError(t) /\ UNCHANGED file_cache
       ELSE file_cache' = Tail(file_cache) /\ UploadDone(t, response[t].events)
    /\ UNCHANGED <<has_pymupdf, seen, ai_calls, odd_replies, prev>>

\* each thread uploads the oldest document of the cache, the next one, or one of
\* two documents the cache does not hold
InitConcurrent ==
    /\ has_pymupdf \in BOOLEAN
    /\ odd_replies = 0
    /\ prev = NoPrev
    /\ \E n \in CacheSizes :
          /\ file_cache = FilledCache(n)
          /\ seen = n
          /\ ai_calls = n
          /\ request \in [Threads -> [endpoint : {"upload"}, hash : {1, 2, n + 1, n + 2},
                                      pc : {"test"}]]
    /\ response = [t \in Threads |-> NoLocals]

NextConcurrent ==
    \E t \in Threads :
        \/ TestCache(t)
        \/ ReadCache(t)
        \/ \E reply \in ConcurrentReplies : ExtractEvents(t, reply)
        \/ PutTest(t)
        \/ PutMove(t)
        \/ PutSet(t)
        \/ PutLen(t)
        \/ PutPop(t)

SpecConcurrent == InitConcurrent /\ [][NextConcurrent]_vars

\* C14: when two /upload requests interleave between cache operations, a request
\* that finds its fingerprint in the cache completes successfully with the
\* event list cached under it (the entry is not evicted by the other request's
\* cache_put between the membership test and the read), and the cache holds at
\* most 20 entries once both requests have finished.
C14_HitReadsItsEntry ==
    /\ \A t \in Threads :
          (At(t, "done") /\ response[t].hit) =>
              /\ response[t].status = 200
              /\ response[t].success
              /\ response[t].events = response[t].cached
    /\ (\A t \in Threads : At(t, "done")) => Len(file_cache) <= MAX_CACHE_ITEMS
====
